---- MODULE Spec2Model ----
(***************************************************************************)
(* State-machine model of MealPlanner (meal-planner-streamlit.py): the     *)
(* recipe catalog partition, the lunch and dinner generators, and the      *)
(* grocery-list aggregation.                                               *)
(*                                                                         *)
(* Conventions                                                             *)
(*   - a recipe object is referred to by its position in self.recipes      *)
(*     (1..Len(recipes)); Python's None is the reference 0;                *)
(*   - Python's == on recipes (used by "r not in new_dinners") compares    *)
(*     the recipe records by value;                                        *)
(*   - a Python dict is a function whose DOMAIN is its key set;            *)
(*   - a recipe name is the sequence of its characters, so that            *)
(*     str.startswith is computed and not assumed;                         *)
(*   - an Optional[str] argument is <<>> (None) or <<s>>;                  *)
(*   - slot indices are 0-based as in the source; slot i of a Python list  *)
(*     is element i+1 of the sequence that models it;                      *)
(*   - random.choice is a nondeterministic choice among the candidates.    *)
(***************************************************************************)
EXTENDS Integers, Sequences, FiniteSets, TLC

VARIABLES
    recipes,           \* self.recipes: the loaded catalog
    lunch_recipes,     \* self.lunch_recipes: references, in catalog order
    dinner_recipes,    \* self.dinner_recipes: references, in catalog order
    selected_lunch,    \* self.selected_lunch: a reference or None
    selected_dinners,  \* self.selected_dinners: [] or a list of references/None
    op,                \* the method the last call invoked
    args,              \* the arguments of the last call, as passed
    category_limits,   \* the caller's quota dict after the last call (mutated in place)
    ret,               \* the value the last call returned
    exc                \* the exception the last call raised

vars == <<recipes, lunch_recipes, dinner_recipes, selected_lunch, selected_dinners,
          op, args, category_limits, ret, exc>>

---------------------------------------------------------------------------
(* Values *)

None == 0

NumSlots == 5

EmptyDict == [k \in {} |-> 0]

NoReturn == <<>>

Range(s) == {s[i] : i \in DOMAIN s}

\* Bounds of the model.
MaxQuota == 3
MaxCatalogLen == 3
MaxWeekLock == 2

---------------------------------------------------------------------------
(* Exceptions *)

NoException == [type |-> "None", text |-> "", nums |-> <<>>, cat |-> ""]

\* the two totals in each other's place
QuotaValueErrorSwapped(remaining_slots, total_requested) ==
    [type |-> "ValueError",
     text |-> "Total category counts must equal {remaining_slots} (requested: {total_requested})",
     nums |-> <<total_requested, remaining_slots>>,
     cat  |-> ""]

QuotaValueError(remaining_slots, total_requested) ==
    [type |-> "ValueError",
     text |-> "Total category counts must equal {remaining_slots} (requested: {total_requested})",
     nums |-> <<remaining_slots, total_requested>>,
     cat  |-> ""]

LunchValueError(category) ==
    [type |-> "ValueError",
     text |-> "No lunch recipes found for category: {category}",
     nums |-> <<>>,
     cat  |-> category]

\* random.choice([]) raises IndexError.
ChoiceIndexError ==
    [type |-> "IndexError", text |-> "Cannot choose from an empty sequence",
     nums |-> <<>>, cat |-> ""]

\* None['category'] raises TypeError.
NoneSubscriptTypeError ==
    [type |-> "TypeError", text |-> "'NoneType' object is not subscriptable",
     nums |-> <<>>, cat |-> ""]

\* recipe['units'] on a record with no 'units' key raises KeyError.
UnitsKeyError ==
    [type |-> "KeyError", text |-> "'units'", nums |-> <<>>, cat |-> ""]

---------------------------------------------------------------------------
(* Recipe names and str.startswith *)

LunchMarker == <<"L", "u", "n", "c", "h", " ", "-", " ">>

StartsWith(s, prefix) ==
    /\ Len(s) >= Len(prefix)
    /\ SubSeq(s, 1, Len(prefix)) = prefix

Indices(rs) == [i \in 1..Len(rs) |-> i]

\* [r for r in self.recipes if r['name'].startswith('Lunch - ')]
LunchPool(rs) == SelectSeq(Indices(rs), LAMBDA i : StartsWith(rs[i].name, LunchMarker))

\* [r for r in self.recipes if not r['name'].startswith('Lunch - ')]
DinnerPool(rs) == SelectSeq(Indices(rs), LAMBDA i : ~StartsWith(rs[i].name, LunchMarker))

---------------------------------------------------------------------------
(* Category names and sorted() *)

\* The category names of the model, in Python's string order.
CategoryOrder == <<"", "Fish", "Meat", "Veg">>

Rank(c) == CHOOSE i \in DOMAIN CategoryOrder : CategoryOrder[i] = c

RECURSIVE SortedList(_)
\* sorted(S) for a set S of category names
SortedList(S) ==
    IF S = {} THEN <<>>
    ELSE LET m == CHOOSE x \in S : \A y \in S : Rank(x) <= Rank(y)
         IN  <<m>> \o SortedList(S \ {m})

\* meal_type ignored: always the dinner pool
GetCategoriesOfDinner(meal_type, lunch, dinner, rs) ==
    SortedList({rs[dinner[i]].category : i \in DOMAIN dinner})

\* MealPlanner.get_categories
GetCategories(meal_type, lunch, dinner, rs) ==
    LET pool == IF meal_type = "lunch" THEN lunch ELSE dinner
    IN  SortedList({rs[pool[i]].category : i \in DOMAIN pool})

---------------------------------------------------------------------------
(* Dict helpers *)

RECURSIVE SumValues(_)
\* sum(d.values())
SumValues(d) ==
    IF DOMAIN d = {} THEN 0
    ELSE LET k == CHOOSE x \in DOMAIN d : TRUE
         IN  d[k] + SumValues([x \in DOMAIN d \ {k} |-> d[x]])

\* the decrement forgotten
DecrementForgotten(d, k) == d

\* d[k] -= 1
Decrement(d, k) == [d EXCEPT ![k] = @ - 1]

RECURSIVE AscendingList(_)
\* the list of the indices of a set, ascending
AscendingList(S) ==
    IF S = {} THEN <<>>
    ELSE LET m == CHOOSE x \in S : \A y \in S : x <= y
         IN  <<m>> \o AscendingList(S \ {m})

---------------------------------------------------------------------------
(* generate_dinners *)

\* [None] * 5
EmptyPlan == [i \in 1..NumSlots |-> None]

\* r in new_dinners: some element is r or equals r
InPlan(r, new_dinners) ==
    \E j \in DOMAIN new_dinners :
        /\ new_dinners[j] # None
        /\ recipes[new_dinners[j]] = recipes[r]

\* the loop body never entered: nothing kept, nothing counted
KeepLockedSkipped(locked_indices, k, new_dinners, limits) ==
    [new_dinners |-> new_dinners, limits |-> limits, raised |-> FALSE]

RECURSIVE KeepLocked(_, _, _, _)
\* The loop over locked_indices from position k on. Yields the new plan, the
\* quota dict and whether the subscript of a None slot raised.
KeepLocked(locked_indices, k, new_dinners, limits) ==
    IF k > Len(locked_indices)
    THEN [new_dinners |-> new_dinners, limits |-> limits, raised |-> FALSE]
    ELSE LET idx == locked_indices[k]
         IN  IF 0 <= idx /\ idx < Len(selected_dinners) /\ selected_dinners # <<>>
             THEN LET kept == [new_dinners EXCEPT ![idx + 1] = selected_dinners[idx + 1]]
                  IN  IF selected_dinners[idx + 1] = None
                      THEN [new_dinners |-> kept, limits |-> limits, raised |-> TRUE]
                      ELSE LET cat == recipes[selected_dinners[idx + 1]].category
                           IN  KeepLocked(locked_indices, k + 1, kept,
                                          IF cat \in DOMAIN limits
                                          THEN Decrement(limits, cat)
                                          ELSE limits)
             ELSE KeepLocked(locked_indices, k + 1, new_dinners, limits)

\* the recipes already placed not left out
AvailableWithPlaced(category, new_dinners) ==
    {r \in Range(dinner_recipes) : recipes[r].category = category}

\* [r for r in self.dinner_recipes if r['category'] == category and r not in new_dinners]
Available(category, new_dinners) ==
    {r \in Range(dinner_recipes) :
        recipes[r].category = category /\ ~InPlan(r, new_dinners)}

RECURSIVE FillSlots(_, _, _, _)
\* The loop over empty_indices from position k on: the set of the results the
\* random choices can give, each a new plan with the quota dict left.
FillSlots(empty_indices, k, new_dinners, limits) ==
    IF k > Len(empty_indices)
    THEN {[new_dinners |-> new_dinners, limits |-> limits]}
    ELSE LET idx == empty_indices[k]
             available_categories == {c \in DOMAIN limits : limits[c] > 0}
         IN  IF available_categories = {}
             THEN FillSlots(empty_indices, k + 1, new_dinners, limits)
             ELSE UNION {
                    LET available == Available(category, new_dinners)
                    IN  IF available = {}
                        THEN FillSlots(empty_indices, k + 1, new_dinners, limits)
                        ELSE UNION {
                               FillSlots(empty_indices, k + 1,
                                         [new_dinners EXCEPT ![idx + 1] = r],
                                         Decrement(limits, category))
                               : r \in available}
                    : category \in available_categories}

\* [i for i in range(5) if new_dinners[i] is None]
EmptyIndices(new_dinners) ==
    AscendingList({i \in 0..(NumSlots - 1) : new_dinners[i + 1] = None})

DinnerArgs(limits, locked_indices) ==
    [category |-> <<>>, category_limits |-> limits,
     locked_indices |-> locked_indices, meal_type |-> ""]

\* MealPlanner.generate_dinners(category_limits, locked_indices)
generate_dinners(limits, locked_indices) ==
    LET remaining_slots == NumSlots - Len(locked_indices)
        total_requested == SumValues(limits)
        kept            == KeepLocked(locked_indices, 1, EmptyPlan, limits)
    IN  /\ op' = "generate_dinners"
        /\ args' = DinnerArgs(limits, locked_indices)
        /\ UNCHANGED <<recipes, lunch_recipes, dinner_recipes, selected_lunch>>
        /\ IF total_requested # remaining_slots
           THEN /\ exc' = QuotaValueError(remaining_slots, total_requested)
                /\ category_limits' = limits
                /\ ret' = NoReturn
                /\ UNCHANGED selected_dinners
           ELSE IF kept.raised
           THEN /\ exc' = NoneSubscriptTypeError
                /\ category_limits' = kept.limits
                /\ ret' = NoReturn
                /\ UNCHANGED selected_dinners
           ELSE \E filled \in FillSlots(EmptyIndices(kept.new_dinners), 1,
                                        kept.new_dinners, kept.limits) :
                /\ exc' = NoException
                /\ category_limits' = filled.limits
                /\ selected_dinners' = filled.new_dinners
                /\ ret' = filled.new_dinners

---------------------------------------------------------------------------
(* generate_lunch *)

\* the truth value of an Optional[str]: None and "" are false
Truthy(category) == category # <<>> /\ category[1] # ""

LunchArgs(category) ==
    [category |-> category, category_limits |-> EmptyDict,
     locked_indices |-> <<>>, meal_type |-> ""]

\* MealPlanner.generate_lunch(category)
generate_lunch(category) ==
    LET available ==
            IF Truthy(category)
            THEN {r \in Range(lunch_recipes) : recipes[r].category = category[1]}
            ELSE Range(lunch_recipes)
    IN  /\ op' = "generate_lunch"
        /\ args' = LunchArgs(category)
        /\ category_limits' = EmptyDict
        /\ UNCHANGED <<recipes, lunch_recipes, dinner_recipes, selected_dinners>>
        /\ IF Truthy(category) /\ available = {}
           THEN /\ exc' = LunchValueError(category[1])
                /\ ret' = NoReturn
                /\ UNCHANGED selected_lunch
           ELSE IF available = {}
           THEN /\ exc' = ChoiceIndexError
                /\ ret' = NoReturn
                /\ UNCHANGED selected_lunch
           ELSE \E r \in available :
                /\ exc' = NoException
                /\ selected_lunch' = r
                /\ ret' = r

---------------------------------------------------------------------------
(* generate_grocery_list *)

\* One pass of "for ingredient, amount in recipe['ingredients'].items()" over
\* the defaultdict grocery_list (a missing key reads as [0, ""]).
AddRecipe(grocery_list, r) ==
    LET ingredients == recipes[r].ingredients
        units       == recipes[r].units
    IN  [ingredient \in DOMAIN grocery_list \cup DOMAIN ingredients |->
            IF ingredient \in DOMAIN ingredients
            THEN <<(IF ingredient \in DOMAIN grocery_list
                    THEN grocery_list[ingredient][1] ELSE 0) + ingredients[ingredient],
                   IF ingredient \in DOMAIN units THEN units[ingredient] ELSE "">>
            ELSE grocery_list[ingredient]]

RECURSIVE AddDinners(_, _, _)
\* "for dinner in self.selected_dinners: if dinner: ..." from position k on
AddDinners(grocery_list, dinners, k) ==
    IF k > Len(dinners) THEN grocery_list
    ELSE AddDinners(IF dinners[k] # None THEN AddRecipe(grocery_list, dinners[k])
                    ELSE grocery_list,
                    dinners, k + 1)

\* recipe['units'] raises in the first pass of the loop over the ingredients
\* of r: r has an ingredient and no 'units' key
UnitsMissing(r) ==
    /\ "units" \notin DOMAIN recipes[r]
    /\ DOMAIN recipes[r].ingredients # {}

\* lines 72 and 79: some recipe the list is built from raises KeyError
GroceryListRaises(lunch, dinners) ==
    \/ lunch # None /\ UnitsMissing(lunch)
    \/ \E k \in 1..Len(dinners) : dinners[k] # None /\ UnitsMissing(dinners[k])

\* MealPlanner.generate_grocery_list's result, as a mapping
GroceryList(lunch, dinners) ==
    AddDinners(IF lunch # None THEN AddRecipe(EmptyDict, lunch) ELSE EmptyDict,
               dinners, 1)

NoArgs ==
    [category |-> <<>>, category_limits |-> EmptyDict,
     locked_indices |-> <<>>, meal_type |-> ""]

\* MealPlanner.generate_grocery_list()
generate_grocery_list ==
    /\ op' = "generate_grocery_list"
    /\ args' = NoArgs
    /\ category_limits' = EmptyDict
    /\ IF GroceryListRaises(selected_lunch, selected_dinners)
       THEN /\ exc' = UnitsKeyError
            /\ ret' = NoReturn
       ELSE /\ exc' = NoException
            /\ ret' = GroceryList(selected_lunch, selected_dinners)
    /\ UNCHANGED <<recipes, lunch_recipes, dinner_recipes, selected_lunch, selected_dinners>>

---------------------------------------------------------------------------
(* get_categories *)

CategoriesArgs(meal_type) ==
    [category |-> <<>>, category_limits |-> EmptyDict,
     locked_indices |-> <<>>, meal_type |-> meal_type]

\* MealPlanner.get_categories(meal_type)
get_categories(meal_type) ==
    /\ op' = "get_categories"
    /\ args' = CategoriesArgs(meal_type)
    /\ category_limits' = EmptyDict
    /\ exc' = NoException
    /\ ret' = GetCategories(meal_type, lunch_recipes, dinner_recipes, recipes)
    /\ UNCHANGED <<recipes, lunch_recipes, dinner_recipes, selected_lunch, selected_dinners>>

---------------------------------------------------------------------------
(* Catalogs *)

Recipe(name, category, ingredients, units) ==
    [name |-> name, category |-> category, ingredients |-> ingredients, units |-> units]

\* a record of recipes.json with no 'units' key
RecipeWithoutUnits(name, category, ingredients) ==
    [name |-> name, category |-> category, ingredients |-> ingredients]

LunchWrap  == Recipe(LunchMarker \o <<"W", "r", "a", "p">>, "Veg",
                     ("tortilla" :> 1 @@ "eggs" :> 2), ("eggs" :> "pcs"))
LunchSoup  == Recipe(LunchMarker \o <<"S", "o", "u", "p">>, "Meat",
                     ("stock" :> 2 @@ "eggs" :> 1), ("stock" :> "cups" @@ "eggs" :> "dozen"))
Chili      == Recipe(<<"C", "h", "i", "l", "i">>, "Meat",
                     ("beans" :> 2 @@ "eggs" :> 1), ("beans" :> "cans" @@ "eggs" :> "dozen"))
Curry      == Recipe(<<"C", "u", "r", "r", "y">>, "Veg",
                     ("rice" :> 1 @@ "eggs" :> 3), ("rice" :> "cups"))
\* "Lunch-Pie" lacks the marker's spaces: a dinner recipe
LunchPie   == Recipe(<<"L", "u", "n", "c", "h", "-", "P", "i", "e">>, "Veg",
                     ("eggs" :> 1 @@ "beans" :> 1), ("eggs" :> "pcs" @@ "beans" :> "g"))
Roast      == Recipe(<<"R", "o", "a", "s", "t">>, "Meat",
                     ("stock" :> 1), EmptyDict)
Dal        == Recipe(<<"D", "a", "l">>, "Veg",
                     ("rice" :> 2 @@ "beans" :> 1), ("rice" :> "cups"))

\* a lunch and a dinner with no 'units' key
LunchToast == RecipeWithoutUnits(LunchMarker \o <<"T", "o", "a", "s", "t">>, "Veg",
                                 ("bread" :> 2))
Broth      == RecipeWithoutUnits(<<"B", "r", "o", "t", "h">>, "Meat",
                                 ("stock" :> 3))

\* two lunches, three dinners; Toast and Broth have no 'units' key
PantryCatalog == <<LunchWrap, LunchToast, Chili, Curry, Broth>>

\* one lunch, two dinners: Meat 1, Veg 1
HomeCatalog == <<LunchWrap, Chili, Curry>>

\* one lunch, one dinner
SnackCatalog == <<LunchSoup, Chili>>

\* six dinners: Veg 4, of which the last is the one before it loaded again, Meat 2
WeekCatalog == <<Curry, Chili, LunchPie, Roast, Dal, Dal>>

\* a lunch with the empty string as its category
LunchPlain == Recipe(LunchMarker \o <<"P", "l", "a", "i", "n">>, "",
                     ("tortilla" :> 2), EmptyDict)

\* the records the catalogs of SpecCat are built from
RecipePool == {LunchWrap, LunchSoup, LunchPlain, Chili, Curry, LunchPie}

RECURSIVE SeqsUpTo(_, _)
\* the sequences over S of length at most n
SeqsUpTo(S, n) ==
    IF n = 0 THEN {<<>>}
    ELSE LET shorter == SeqsUpTo(S, n - 1)
         IN  shorter \cup {Append(s, x) : s \in shorter, x \in S}

Catalogs == SeqsUpTo(RecipePool, MaxCatalogLen)

---------------------------------------------------------------------------
(* The planner after MealPlanner.__init__ *)

Constructed(rs) ==
    /\ recipes = rs
    /\ lunch_recipes = LunchPool(rs)
    /\ dinner_recipes = DinnerPool(rs)
    /\ selected_lunch = None
    /\ selected_dinners = <<>>
    /\ op = "__init__"
    /\ args = NoArgs
    /\ category_limits = EmptyDict
    /\ ret = NoReturn
    /\ exc = NoException

---------------------------------------------------------------------------
(* The calls main() makes. A run of main() reads the widgets and makes at   *)
(* most one generating call, for the button that was pressed; each call is  *)
(* one step.                                                                *)

\* the 0-based indices of the filled slots of a plan
Filled(plan) == {i \in 0..(Len(plan) - 1) : plan[i + 1] # None}

\* locked_dinners: None (the empty list to generate_dinners) while there is no
\* plan, else the ticked "Keep dinner" boxes, one box per filled slot
MainLockLists ==
    IF selected_dinners = <<>> THEN {<<>>}
    ELSE {AscendingList(S) : S \in SUBSET Filled(selected_dinners)}

\* category_counts when Generate Dinners goes through: a key for each dinner
\* category with a positive count, the counts totalling remaining_slots
MainCategoryCounts(remaining_slots) ==
    LET dinner_categories == Range(GetCategories("dinner", lunch_recipes,
                                                 dinner_recipes, recipes))
    IN  {q \in UNION {[S -> 1..remaining_slots] : S \in SUBSET dinner_categories} :
            SumValues(q) = remaining_slots}

\* the argument of generate_lunch: none (Generate Random Lunch, or a select
\* box with nothing to offer), or a name of get_categories('lunch')
MainLunchCategories ==
    {<<>>} \cup {<<c>> : c \in Range(GetCategories("lunch", lunch_recipes,
                                                  dinner_recipes, recipes))}

MainMealTypes == {"lunch", "dinner"}

MainGenerateLunch == \E category \in MainLunchCategories : generate_lunch(category)

MainGetCategories == \E meal_type \in MainMealTypes : get_categories(meal_type)

(* Spec: main() on a catalog in which some records have no 'units' key.    *)

Init == Constructed(PantryCatalog)

Next ==
    \/ MainGenerateLunch
    \/ \E locked_indices \in MainLockLists :
         \E limits \in MainCategoryCounts(NumSlots - Len(locked_indices)) :
           generate_dinners(limits, locked_indices)
    \/ generate_grocery_list
    \/ MainGetCategories

Spec == Init /\ [][Next]_vars

(* SpecWeek: main()'s dinner generation on a catalog of six dinners, the   *)
(* "Keep dinner" boxes ticked among the first MaxWeekLock slots only.      *)

InitWeek == Constructed(WeekCatalog)

NextWeek ==
    \E locked_indices \in {l \in MainLockLists : \A i \in Range(l) : i < MaxWeekLock} :
      \E limits \in MainCategoryCounts(NumSlots - Len(locked_indices)) :
        generate_dinners(limits, locked_indices)

SpecWeek == InitWeek /\ [][NextWeek]_vars

(* SpecCat: main()'s lunch generation, category listings and grocery list  *)
(* on every catalog of at most MaxCatalogLen records.                      *)

InitCat == \E rs \in Catalogs : Constructed(rs)

NextCat ==
    \/ MainGenerateLunch
    \/ MainGetCategories
    \/ generate_grocery_list

SpecCat == InitCat /\ [][NextCat]_vars

---------------------------------------------------------------------------
(* The calls any client of MealPlanner can make: the methods with          *)
(* arguments main() never passes.                                          *)

\* locked_indices: any list of distinct indices of 0..4, ascending
LockLists == {AscendingList(S) : S \in SUBSET (0..(NumSlots - 1))}

\* category_limits: any subset of the categories as keys, counts 1..MaxQuota
Quotas == UNION {[S -> 1..MaxQuota] : S \in SUBSET {"Meat", "Veg"}}

\* category_limits: positive counts for dinner categories of the catalog,
\* totalling at most remaining_slots
QuotasWithin(remaining_slots) ==
    LET dinner_categories == Range(GetCategories("dinner", lunch_recipes,
                                                 dinner_recipes, recipes))
    IN  {q \in UNION {[S -> 1..remaining_slots] : S \in SUBSET dinner_categories} :
            SumValues(q) <= remaining_slots}

\* category: None, the empty string, a name no recipe has, names recipes have
LunchCategories == {<<>>, <<"">>, <<"Fish">>, <<"Meat">>, <<"Veg">>}

\* meal_type: 'lunch', 'dinner', and a string that is neither
MealTypes == {"lunch", "dinner", "breakfast"}

(* SpecApi: the household catalog, every method, any lock list with the    *)
(* quota dicts that total at most the slots left.                          *)

NextApi ==
    \/ \E category \in LunchCategories : generate_lunch(category)
    \/ \E locked_indices \in LockLists :
         \E limits \in QuotasWithin(NumSlots - Len(locked_indices)) :
           generate_dinners(limits, locked_indices)
    \/ generate_grocery_list
    \/ \E meal_type \in MealTypes : get_categories(meal_type)

InitApi == Constructed(HomeCatalog)

SpecApi == InitApi /\ [][NextApi]_vars

(* SpecQuota: a two-recipe catalog, any lock list with any quota dict.     *)

InitQuota == Constructed(SnackCatalog)

NextQuota ==
    \/ \E category \in LunchCategories : generate_lunch(category)
    \/ \E locked_indices \in LockLists, limits \in Quotas :
           generate_dinners(limits, locked_indices)

SpecQuota == InitQuota /\ [][NextQuota]_vars

---------------------------------------------------------------------------
(* Properties *)

CategoryOf(r) == recipes[r].category

\* the 0-based indices of the slots of a plan that hold a recipe of category c
SlotsOf(plan, c) == {i \in Filled(plan) : CategoryOf(plan[i + 1]) = c}

DinnersSucceeded == op = "generate_dinners" /\ exc = NoException

\* C1: after every successful generate_dinners call, whatever the quotas and
\* the lock lists of the calls so far, no two filled dinner slots hold the
\* same recipe.
NoRecipeTwice ==
    \A i, j \in Filled(selected_dinners) :
        i # j => selected_dinners[i + 1] # selected_dinners[j + 1]

\* A successful call with a lock list that asked for more of a category than
\* the catalog has left both dinner recipes placed, once each.
NoRecipeTwiceWitness ==
    /\ DinnersSucceeded
    /\ args.locked_indices # <<>>
    /\ Cardinality(Filled(selected_dinners)) = 2
    /\ \E c \in DOMAIN category_limits : category_limits[c] > 0

\* C2: a filled slot i keeps its recipe through a successful generate_dinners
\* call whose lock list contains i, and its recipe changes only in a
\* successful generate_dinners call whose lock list omits i.
LockedSlotKept ==
    [][\A i \in Filled(selected_dinners) :
         /\ (/\ op' = "generate_dinners"
             /\ exc' = NoException
             /\ i \in Range(args'.locked_indices))
            => selected_dinners'[i + 1] = selected_dinners[i + 1]
         /\ selected_dinners'[i + 1] # selected_dinners[i + 1]
            => /\ op' = "generate_dinners"
               /\ exc' = NoException
               /\ i \notin Range(args'.locked_indices)]_vars

\* A successful call left slot 0, unlocked, empty while a locked slot holds a
\* recipe. On the empty plan of a fresh planner slot 0 is the first one filled,
\* so the locked recipe was kept from the plan before.
LockedSlotKeptWitness ==
    /\ DinnersSucceeded
    /\ args.category_limits # EmptyDict
    /\ 0 \notin Range(args.locked_indices)
    /\ selected_dinners[1] = None
    /\ \E i \in Range(args.locked_indices) : selected_dinners[i + 1] # None

\* C3: generate_dinners raises the quota error, carrying 5 - len(locked_indices)
\* and the quota total, exactly when the two differ, and then leaves the dinner
\* slots, the selected lunch and the quota dict as they were.
QuotaMismatchRejected ==
    [][op' = "generate_dinners" =>
         LET limits   == args'.category_limits
             expected == NumSlots - Len(args'.locked_indices)
             actual   == SumValues(limits)
         IN  IF actual # expected
             THEN /\ exc'.type = "ValueError"
                  /\ exc'.nums = <<expected, actual>>
                  /\ selected_dinners' = selected_dinners
                  /\ selected_lunch' = selected_lunch
                  /\ category_limits' = limits
             ELSE exc'.type # "ValueError"]_vars

\* The quota error raised on a planner that has a lunch and a dinner selected,
\* for a call with locks that asked for more than the slots left.
QuotaMismatchRejectedWitness ==
    /\ op = "generate_dinners"
    /\ exc.type = "ValueError"
    /\ exc.nums = <<3, 4>>
    /\ Len(args.locked_indices) = 2
    /\ selected_lunch # None
    /\ Filled(selected_dinners) # {}

\* the distinct dinner recipes (by content) of category c
DistinctDinners(c) == {recipes[r] : r \in {x \in Range(dinner_recipes) : CategoryOf(x) = c}}

UnlockedFullRequest ==
    /\ op = "generate_dinners"
    /\ args.locked_indices = <<>>
    /\ SumValues(args.category_limits) = NumSlots

FiveDistinctByQuota ==
    /\ exc = NoException
    /\ Filled(ret) = 0..(NumSlots - 1)
    /\ \A i, j \in Filled(ret) : i # j => ret[i + 1] # ret[j + 1]
    /\ \A c \in DOMAIN args.category_limits :
           Cardinality(SlotsOf(ret, c)) = args.category_limits[c]

\* C4 as stated: with no locks, a quota totalling 5 and at least 5 distinct
\* dinner recipes over the requested categories, generate_dinners returns 5
\* filled slots, all distinct, each category as often as its quota.
FiveOverallSuffice ==
    (/\ UnlockedFullRequest
     /\ Cardinality(UNION {DistinctDinners(c) : c \in DOMAIN args.category_limits})
          >= NumSlots)
    => FiveDistinctByQuota

\* C4 amended: the same result when every requested category has at least as
\* many distinct dinner recipes as its quota.
EnoughPerCategorySuffice ==
    (/\ UnlockedFullRequest
     /\ \A c \in DOMAIN args.category_limits :
            Cardinality(DistinctDinners(c)) >= args.category_limits[c])
    => FiveDistinctByQuota

\* An unlocked call for 3 Veg and 2 Meat dinners, over a plan generated before.
EnoughPerCategoryWitness ==
    /\ UnlockedFullRequest
    /\ args.category_limits = ("Veg" :> 3 @@ "Meat" :> 2)
    /\ \A c \in DOMAIN args.category_limits :
           Cardinality(DistinctDinners(c)) >= args.category_limits[c]
    /\ exc = NoException
    /\ Filled(ret) = 0..(NumSlots - 1)
    /\ category_limits = ("Veg" :> 0 @@ "Meat" :> 0)

\* C5: a successful generate_dinners call that locks filled slots, each
\* requested category having at least as many dinner recipes outside the
\* locked slots as its quota, fills as many unlocked slots with each category
\* as the quota says.
QuotaCountsNewSlots ==
    [][(/\ op' = "generate_dinners"
        /\ exc' = NoException
        /\ args'.locked_indices # <<>>
        /\ Range(args'.locked_indices) \subseteq Filled(selected_dinners)
        /\ \A c \in DOMAIN args'.category_limits :
             Cardinality({recipes[r] :
                            r \in {x \in Range(dinner_recipes) :
                                     /\ CategoryOf(x) = c
                                     /\ \A i \in Range(args'.locked_indices) :
                                          recipes[selected_dinners[i + 1]] # recipes[x]}})
               >= args'.category_limits[c])
       => \A c \in DOMAIN args'.category_limits :
            Cardinality(SlotsOf(selected_dinners', c) \ Range(args'.locked_indices))
              = args'.category_limits[c]]_vars

\* C6: on a 5-slot plan, generate_dinners with all 5 indices locked and a quota
\* totalling 0 succeeds, returns the plan as it was and leaves it unchanged,
\* also when the plan has an unfilled slot.
AllLockedIsNoOp ==
    [][(/\ Len(selected_dinners) = NumSlots
        /\ op' = "generate_dinners"
        /\ Range(args'.locked_indices) = 0..(NumSlots - 1)
        /\ SumValues(args'.category_limits) = 0)
       => /\ exc' = NoException
          /\ ret' = selected_dinners
          /\ selected_dinners' = selected_dinners]_vars

\* the recipes the grocery list is made of: the lunch, then the filled dinner
\* slots by ascending index
Contributors ==
    (IF selected_lunch # None THEN <<selected_lunch>> ELSE <<>>)
        \o SelectSeq(selected_dinners, LAMBDA r : r # None)

RECURSIVE TotalOf(_, _)
\* the sum of the quantities of an ingredient over a sequence of recipes
TotalOf(ingredient, rs) ==
    IF rs = <<>> THEN 0
    ELSE (IF ingredient \in DOMAIN recipes[Head(rs)].ingredients
          THEN recipes[Head(rs)].ingredients[ingredient] ELSE 0)
         + TotalOf(ingredient, Tail(rs))

\* the unit of an ingredient in the last recipe of a sequence that contains it
LastUnitOf(ingredient, rs) ==
    LET last == CHOOSE i \in DOMAIN rs :
                  /\ ingredient \in DOMAIN recipes[rs[i]].ingredients
                  /\ \A j \in DOMAIN rs :
                       ingredient \in DOMAIN recipes[rs[j]].ingredients => j <= i
    IN  IF /\ "units" \in DOMAIN recipes[rs[last]]
           /\ ingredient \in DOMAIN recipes[rs[last]].units
        THEN recipes[rs[last]].units[ingredient] ELSE ""

\* C7: generate_grocery_list succeeds and maps exactly the ingredients of the
\* selected lunch and of the filled dinner slots, each to its total quantity
\* and to the unit of the last recipe containing it (lunch first, then the
\* slots in order), the empty string when that recipe gives no unit for it;
\* the mapping is empty when nothing is selected.
GroceryListAggregates ==
    op = "generate_grocery_list" =>
        /\ exc = NoException
        /\ DOMAIN ret =
             UNION {DOMAIN recipes[Contributors[i]].ingredients : i \in DOMAIN Contributors}
        /\ \A ingredient \in DOMAIN ret :
             ret[ingredient] = <<TotalOf(ingredient, Contributors),
                                 LastUnitOf(ingredient, Contributors)>>
        /\ Contributors = <<>> => ret = EmptyDict

\* C8: generate_lunch with a category no lunch recipe has fails and leaves the
\* selected lunch as it was; with a category some lunch recipe has it selects
\* a lunch recipe of that category.
LunchOfCategory ==
    [][(op' = "generate_lunch" /\ args'.category # <<>>) =>
         LET category == args'.category[1]
         IN  IF \A r \in Range(lunch_recipes) : CategoryOf(r) # category
             THEN /\ exc' # NoException
                  /\ selected_lunch' = selected_lunch
             ELSE /\ exc' = NoException
                  /\ selected_lunch' \in Range(lunch_recipes)
                  /\ CategoryOf(selected_lunch') = category]_vars

\* C9: the dinner slot sequence has exactly 5 entries in every state, from
\* construction on.
AlwaysFiveSlots == Len(selected_dinners) = NumSlots

LunchCategoryList == GetCategories("lunch", lunch_recipes, dinner_recipes, recipes)

DinnerCategoryList == GetCategories("dinner", lunch_recipes, dinner_recipes, recipes)

ClassifiedOnce ==
    \A r \in 1..Len(recipes) :
        (r \in Range(lunch_recipes)) # (r \in Range(dinner_recipes))

\* C10 as stated: with every recipe in exactly one pool, the lunch and the
\* dinner category lists have no name in common.
CategoryListsDisjoint ==
    ClassifiedOnce => Range(LunchCategoryList) \cap Range(DinnerCategoryList) = {}

StrictlyAscending(names) ==
    \A i, j \in DOMAIN names : i < j => Rank(names[i]) < Rank(names[j])

\* C10 amended: every recipe is in exactly one pool; each list is sorted,
\* duplicate-free and holds exactly the categories of its pool; the names in
\* both lists are the categories that both a lunch and a dinner recipe have.
CategoryListsByPool ==
    /\ ClassifiedOnce
    /\ StrictlyAscending(LunchCategoryList)
    /\ StrictlyAscending(DinnerCategoryList)
    /\ Range(LunchCategoryList) = {CategoryOf(r) : r \in Range(lunch_recipes)}
    /\ Range(DinnerCategoryList) = {CategoryOf(r) : r \in Range(dinner_recipes)}
    /\ Range(LunchCategoryList) \cap Range(DinnerCategoryList) =
         {c \in Range(CategoryOrder) :
            /\ \E r \in Range(lunch_recipes) : CategoryOf(r) = c
            /\ \E r \in Range(dinner_recipes) : CategoryOf(r) = c}

\* get_categories('lunch') returned two names, one of them a dinner category too.
CategoryListsWitness ==
    /\ op = "get_categories"
    /\ args.meal_type = "lunch"
    /\ Len(ret) = 2
    /\ Range(ret) \cap Range(DinnerCategoryList) # {}
    /\ Range(ret) \ Range(DinnerCategoryList) # {}

====
